---------------------------- MODULE Spec2Model ----------------------------
(***************************************************************************)
(* Model of the kiro.rs admin surface:                                     *)
(*   src/src/admin/service.rs    AdminService over the MultiTokenManager   *)
(*   src/src/admin_ui/router.rs  static / SPA handler over embedded assets *)
(*                                                                         *)
(* Rust strings whose contents the code inspects (paths, error messages)   *)
(* are sequences of characters, one one-character string per char; a       *)
(* non-ASCII char is written "uXXXX" after its code point.  Strings the    *)
(* code only passes along (bodies, header values) are TLA+ strings.        *)
(***************************************************************************)
EXTENDS Integers, Sequences, FiniteSets, TLC

VARIABLES
    \* ---- admin_ui/router.rs
    assets,      \* the embedded table `Asset`: path -> file contents
    base_path,   \* the router state (State<String>)
    route,       \* which handler served the last request
    uri,         \* the last request's uri.path()
    resp,        \* the last response
    lookups,     \* the paths the last request passed to Asset::get, in order
    \* ---- admin/service.rs, classifiers applied to a message
    cl_in,       \* [fn, msg, index, total]
    cl_out,      \* the AdminServiceError built
    \* ---- admin/service.rs, requests running against the token manager
    pool,        \* the MultiTokenManager's state: [entries, current_index]
    pc,          \* per request task: position in the operation
    req,         \* per request task: operation and arguments
    cap,         \* per request task: what it read from its snapshot
    res,         \* per request task: the value returned
    calls,       \* per request task: token-manager calls made so far
    budget,      \* requests this run may still start
    at_mut       \* per request task: the pool's current_index when its
                 \* mutation was applied (-1 before that)

asset_vars == <<assets, base_path, route, uri, resp, lookups>>
cl_vars    == <<cl_in, cl_out>>
svc_vars   == <<pool, pc, req, cap, res, calls, budget, at_mut>>
vars       == <<asset_vars, cl_vars, svc_vars>>

(***************************************************************************)
(* Bounds                                                                  *)
(***************************************************************************)
MaxSegs    == 3    \* pieces a request path is put together from
MaxPhrases == 2    \* pieces an error message is put together from
MaxEntries == 3    \* credentials in the pool
MaxReqs    == 3    \* set_disabled requests in one run of SpecDisable
MaxOps     == 2    \* admin requests in one run of Spec
MaxUsage   == 4    \* largest small usage / limit value tried

(***************************************************************************)
(* str: contains / starts_with / ends_with / trim_start_matches / rsplit   *)
(***************************************************************************)
contains(s, t) ==
    \E i \in 0..(Len(s) - Len(t)) : SubSeq(s, i + 1, i + Len(t)) = t

starts_with(s, t) ==
    Len(t) <= Len(s) /\ SubSeq(s, 1, Len(t)) = t

ends_with(s, t) ==
    Len(t) <= Len(s) /\ SubSeq(s, Len(s) - Len(t) + 1, Len(s)) = t

RECURSIVE trim_start_matches(_, _)
trim_start_matches(s, c) ==
    IF s # <<>> /\ Head(s) = c THEN trim_start_matches(Tail(s), c) ELSE s

\* path.rsplit('/').next(): the part after the last '/', the whole when none
rsplit_first(s, c) ==
    LET at == {i \in 1..Len(s) : s[i] = c}
        last == IF at = {} THEN 0 ELSE CHOOSE i \in at : \A j \in at : j <= i
    IN SubSeq(s, last + 1, Len(s))

\* str::replace on a document cut into pieces at the marker's occurrences:
\* every piece that is the marker is replaced by the pieces of `with`
RECURSIVE replace(_, _, _)
replace(doc, marker, with) ==
    IF doc = <<>> THEN <<>>
    ELSE (IF Head(doc) = marker THEN with ELSE <<Head(doc)>>)
         \o replace(Tail(doc), marker, with)

\* every concatenation of at most n pieces of P
RECURSIVE Concats(_, _)
Concats(P, n) ==
    IF n = 0 THEN {<<>>}
    ELSE LET prev == Concats(P, n - 1)
         IN prev \cup {s \o p : s \in prev, p \in P}

None == [some |-> FALSE]
Some(v) == [some |-> TRUE, val |-> v]

(***************************************************************************)
(* admin_ui/router.rs                                                      *)
(***************************************************************************)
S_DotDot ==
    <<".", ".">>
S_DotHtml ==
    <<".", "h", "t", "m", "l">>
S_AssetsSlash ==
    <<"a", "s", "s", "e", "t", "s", "/">>
S_IndexHtml ==
    <<"i", "n", "d", "e", "x", ".", "h", "t", "m", "l">>
HeadClose == "</head>"

NoCache  == "no-cache"
OneYear  == "public, max-age=31536000, immutable"
OneHour  == "public, max-age=3600"
HtmlUtf8 == "text/html; charset=utf-8"

\* The files a build of admin-ui/dist may hold.
A_AppJs ==
    <<"a", "s", "s", "e", "t", "s", "/", "a", "p", "p", ".", "3", "f", "9", "a", ".", "j", "s">>
A_Favicon ==
    <<"f", "a", "v", "i", "c", "o", "n", ".", "i", "c", "o">>
A_AssetsHtml ==
    <<"a", "s", "s", "e", "t", "s", "/", "i", "n", "d", "e", "x", ".", "h", "t", "m", "l">>
A_DotDotHtml ==
    <<"i", "n", "d", "e", "x", ".", ".", "h", "t", "m", "l">>
A_Dashboard ==
    <<"d", "a", "s", "h", "b", "o", "a", "r", "d">>

\* File contents are byte strings cut into pieces: runs of ASCII text, the
\* marker "</head>" among them, and single bytes from 0x80 on, written 0xHH.
\* A String is cut the same way, a character beyond ASCII written uXXXX.
ByteValue ==
    ("0x80" :> 128) @@ ("0x82" :> 130) @@ ("0x90" :> 144) @@ ("0xAC" :> 172)
    @@ ("0xE0" :> 224) @@ ("0xE2" :> 226) @@ ("0xE9" :> 233) @@ ("0xF0" :> 240)
    @@ ("0xFF" :> 255)

Replacement == "uFFFD"

\* core::str::utf8_char_width of a byte from 0x80 on
utf8_char_width(b) ==
    IF b \in 194..223 THEN 2
    ELSE IF b \in 224..239 THEN 3
    ELSE IF b \in 240..244 THEN 4
    ELSE 0

\* whether data[i] is a byte within lo..hi (safe_get reads 0 past the end)
byte_in(data, i, lo, hi) ==
    /\ i <= Len(data)
    /\ data[i] \in DOMAIN ByteValue
    /\ ByteValue[data[i]] \in lo..hi

\* the bytes a sequence led by b may continue with
SecondByte(b) ==
    IF b = 224 THEN <<160, 191>>
    ELSE IF b = 237 THEN <<128, 159>>
    ELSE IF b = 240 THEN <<144, 191>>
    ELSE IF b = 244 THEN <<128, 143>>
    ELSE <<128, 191>>

\* Utf8Chunks::next at the head of data: how many pieces the step takes, and
\* whether they are well-formed.  An ill-formed sequence ends before the
\* first byte that cannot continue it.
chunk(data) ==
    IF data[1] \notin DOMAIN ByteValue THEN [valid |-> TRUE, len |-> 1]
    ELSE LET b == ByteValue[data[1]]
             w == utf8_char_width(b)
             second == byte_in(data, 2, SecondByte(b)[1], SecondByte(b)[2])
             third == byte_in(data, 3, 128, 191)
             fourth == byte_in(data, 4, 128, 191)
         IN IF w = 0 THEN [valid |-> FALSE, len |-> 1]
            ELSE IF ~second THEN [valid |-> FALSE, len |-> 1]
            ELSE IF w = 2 THEN [valid |-> TRUE, len |-> 2]
            ELSE IF ~third THEN [valid |-> FALSE, len |-> 2]
            ELSE IF w = 3 THEN [valid |-> TRUE, len |-> 3]
            ELSE IF ~fourth THEN [valid |-> FALSE, len |-> 3]
            ELSE [valid |-> TRUE, len |-> 4]

\* the code point a well-formed sequence encodes
RECURSIVE code_point(_, _)
code_point(bytes, acc) ==
    IF bytes = <<>> THEN acc
    ELSE code_point(Tail(bytes), acc * 64 + ByteValue[Head(bytes)] - 128)

HexDigits ==
    <<"0", "1", "2", "3", "4", "5", "6", "7", "8", "9", "A", "B", "C", "D", "E", "F">>

RECURSIVE Hex(_, _)
Hex(n, width) ==
    IF width = 0 /\ n = 0 THEN ""
    ELSE Hex(n \div 16, IF width = 0 THEN 0 ELSE width - 1) \o HexDigits[(n % 16) + 1]

\* the character of a well-formed sequence of bytes from 0x80 on
Char(bytes) ==
    LET lead == ByteValue[bytes[1]]
            - (IF Len(bytes) = 2 THEN 192 ELSE IF Len(bytes) = 3 THEN 224 ELSE 240)
    IN "u" \o Hex(code_point(Tail(bytes), lead), 4)

\* String::from_utf8_lossy: well-formed text is kept, every maximal
\* ill-formed sequence becomes one U+FFFD
RECURSIVE from_utf8_lossy(_)
from_utf8_lossy(data) ==
    IF data = <<>> THEN <<>>
    ELSE LET c == chunk(data)
             taken == SubSeq(data, 1, c.len)
         IN (IF ~c.valid THEN <<Replacement>>
             ELSE IF c.len = 1 THEN taken
             ELSE <<Char(taken)>>)
            \o from_utf8_lossy(SubSeq(data, c.len + 1, Len(data)))

\* index.html documents: one marker, none, two, one that is not UTF-8
DocOne  == <<"<html><head><title>Kiro</title>", HeadClose, "<body></body></html>">>
DocNone == <<"<html><body></body></html>">>
DocTwo  == <<"<html><head>", HeadClose, "<body><script>'", HeadClose, "'</script></body></html>">>
DocBad  ==
    <<"<html><head>", "0xFF", "0xF0", "0x90", "0x80", HeadClose,
      "<body>caf", "0xE9", " ", "0xE2", "0x82", "0xAC", " ", "0xE2", "0x82", " ",
      "0xE0", "0x80", "</body></html>">>

OtherFiles ==
    [p \in {A_AppJs, A_Favicon, A_AssetsHtml, A_DotDotHtml, A_Dashboard} |-> <<"bytes">>]

WithIndex(doc) ==
    [p \in DOMAIN OtherFiles \cup {S_IndexHtml} |->
        IF p = S_IndexHtml THEN doc ELSE OtherFiles[p]]

\* dist built (four documents), dist without index.html, dist empty
AssetTables ==
    {WithIndex(DocOne), WithIndex(DocNone), WithIndex(DocTwo), WithIndex(DocBad),
     OtherFiles,
     [p \in {} |-> <<"bytes">>]}

BasePaths == {"/admin"}

PathPieces ==
    { S_AssetsSlash, <<"i", "n", "d", "e", "x">>, S_DotHtml, <<".">>, <<"/">>,
      <<"a", "p", "p", ".", "3", "f", "9", "a">>, <<".", "j", "s">>, A_Favicon,
      A_Dashboard, <<"s", "e", "t", "t", "i", "n", "g", "s">> }

\* what the route "/{*file}" matches: "/" and a non-empty rest
Uris == {<<"/">> \o s : s \in Concats(PathPieces, MaxSegs) \ {<<>>}}

\* Asset::get of the derived Embed
Asset_get(path) ==
    IF path \in DOMAIN assets THEN Some(assets[path]) ELSE None

Response(status, ctype, cache, body) ==
    [status |-> status, content_type |-> ctype, cache_control |-> cache, body |-> body]

NoResp == Response(0, "", "", <<>>)

config_script(bp) ==
    <<"<script>window.__KIRO_CONFIG__={basePath:\"", bp, "\"}</script>">>

serve_index(bp) ==
    LET content == Asset_get(S_IndexHtml)
    IN IF content.some
       THEN Response(200, HtmlUtf8, NoCache,
                     replace(from_utf8_lossy(content.val), HeadClose,
                             config_script(bp) \o <<HeadClose>>))
       ELSE Response(404, "", "",
                     <<"Admin UI not built. Run 'pnpm build' in admin-ui directory.">>)

\* faulty variant: the assets/ test before the .html test
get_cache_control_AssetsFirst(path) ==
    IF starts_with(path, S_AssetsSlash) THEN OneYear
    ELSE IF ends_with(path, S_DotHtml) THEN NoCache
    ELSE OneHour

get_cache_control(path) ==
    IF ends_with(path, S_DotHtml) THEN NoCache
    ELSE IF starts_with(path, S_AssetsSlash) THEN OneYear
    ELSE OneHour

\* faulty variant: a '.' anywhere in the path
is_asset_path_WholePath(path) ==
    contains(path, <<".">>)

is_asset_path(path) ==
    contains(rsplit_first(path, "/"), <<".">>)

\* the path static_handler works on
request_path(u) == trim_start_matches(u, "/")

\* Path::file_name: the last component of the path when it is a normal one.
\* Trailing separators and "." components are not components, and a path
\* ending in ".." or holding no component has no file name.
RECURSIVE file_name(_)
file_name(path) ==
    IF path = <<>> THEN None
    ELSE IF path[Len(path)] = "/" \/ rsplit_first(path, "/") = <<".">>
    THEN file_name(SubSeq(path, 1, Len(path) - 1))
    ELSE IF rsplit_first(path, "/") = S_DotDot THEN None
    ELSE Some(rsplit_first(path, "/"))

\* Path::extension: what follows the last '.' of the file name, none when
\* there is no file name, no '.' in it, or only a leading one
extension(path) ==
    LET name == IF file_name(path).some THEN file_name(path).val ELSE <<>>
        dots == {i \in 1..Len(name) : name[i] = "."}
        last == IF dots = {} THEN 0 ELSE CHOOSE i \in dots : \A j \in dots : j <= i
    IN IF last <= 1 THEN None ELSE Some(SubSeq(name, last + 1, Len(name)))

\* mime_guess::from_path(path).first_or_octet_stream().to_string(): the rows
\* of the crate's extension table that the embedded files use
mime_guess(path) ==
    LET ext == extension(path)
    IN IF ~ext.some THEN "application/octet-stream"
       ELSE IF ext.val = <<"h", "t", "m", "l">> THEN "text/html"
       ELSE IF ext.val = <<"j", "s">> THEN "text/javascript"
       ELSE IF ext.val = <<"i", "c", "o">> THEN "image/x-icon"
       ELSE "application/octet-stream"

\* static_handler's response, and the Asset::get calls it makes on the way.
\* faulty variant: the lookup before the ".." test
static_handler_LookupFirst(bp, u) ==
    LET path == request_path(u)
    IN IF Asset_get(path).some
       THEN [resp |-> Response(200, mime_guess(path), get_cache_control(path),
                               Asset_get(path).val),
             lookups |-> <<path>>]
       ELSE IF contains(path, S_DotDot)
       THEN [resp |-> Response(400, "", "", <<"Invalid path">>), lookups |-> <<path>>]
       ELSE IF ~is_asset_path(path)
       THEN [resp |-> serve_index(bp), lookups |-> <<path, S_IndexHtml>>]
       ELSE [resp |-> Response(404, "", "", <<"Not found">>), lookups |-> <<path>>]

static_handler(bp, u) ==
    LET path == request_path(u)
    IN IF contains(path, S_DotDot)
       THEN [resp |-> Response(400, "", "", <<"Invalid path">>), lookups |-> <<>>]
       ELSE IF Asset_get(path).some
       THEN [resp |-> Response(200, mime_guess(path), get_cache_control(path),
                               Asset_get(path).val),
             lookups |-> <<path>>]
       ELSE IF ~is_asset_path(path)
       THEN [resp |-> serve_index(bp), lookups |-> <<path, S_IndexHtml>>]
       ELSE [resp |-> Response(404, "", "", <<"Not found">>), lookups |-> <<path>>]

\* GET /{*file}.  The handlers keep nothing between requests, so a run
\* serves one request.
StaticHandler ==
    /\ route = "none"
    /\ \E u \in Uris :
        /\ uri' = u
        /\ route' = "static"
        /\ resp' = static_handler(base_path, u).resp
        /\ lookups' = static_handler(base_path, u).lookups
    /\ UNCHANGED <<assets, base_path, cl_vars, svc_vars>>

\* GET /
IndexHandler ==
    /\ route = "none"
    /\ uri' = <<"/">>
    /\ route' = "index"
    /\ resp' = serve_index(base_path)
    /\ lookups' = <<S_IndexHtml>>
    /\ UNCHANGED <<assets, base_path, cl_vars, svc_vars>>

(***************************************************************************)
(* admin/service.rs: error classification                                  *)
(***************************************************************************)
S_OutOfRange ==
    <<"u7D22", "u5F15", "u8D85", "u51FA", "u8303", "u56F4">>
S_Expired ==
    <<"u51ED", "u8BC1", "u5DF2", "u8FC7", "u671F", "u6216", "u65E0", "u6548">>
S_Forbidden ==
    <<"u6743", "u9650", "u4E0D", "u8DB3">>
S_RateLimited ==
    <<"u5DF2", "u88AB", "u9650", "u6D41">>
S_ServerError ==
    <<"u670D", "u52A1", "u5668", "u9519", "u8BEF">>
S_RefreshFailed ==
    <<"T", "o", "k", "e", "n", " ", "u5237", "u65B0", "u5931", "u8D25">>
S_Unavailable ==
    <<"u6682", "u65F6", "u4E0D", "u53EF", "u7528">>
S_TryingToConnect ==
    <<"e", "r", "r", "o", "r", " ", "t", "r", "y", "i", "n", "g", " ", "t", "o", " ", "c", "o", "n", "n", "e", "c", "t">>
S_Connection ==
    <<"c", "o", "n", "n", "e", "c", "t", "i", "o", "n">>
S_Timeout ==
    <<"t", "i", "m", "e", "o", "u", "t">>
S_TimedOut ==
    <<"t", "i", "m", "e", "d", " ", "o", "u", "t">>

NotFound(index, total) == [kind |-> "NotFound", index |-> index, total |-> total]
UpstreamError(msg)     == [kind |-> "UpstreamError", msg |-> msg]
InternalError(msg)     == [kind |-> "InternalError", msg |-> msg]

\* classify_balance_error's local is_upstream_error
is_upstream_error(msg) ==
    \/ contains(msg, S_Expired)
    \/ contains(msg, S_Forbidden)
    \/ contains(msg, S_RateLimited)
    \/ contains(msg, S_ServerError)
    \/ contains(msg, S_RefreshFailed)
    \/ contains(msg, S_Unavailable)
    \/ contains(msg, S_TryingToConnect)
    \/ contains(msg, S_Connection)
    \/ contains(msg, S_Timeout)
    \/ contains(msg, S_TimedOut)

\* faulty variant: the simple classifier telling upstream errors apart
classify_error_UpstreamToo(e, index, total) ==
    IF contains(e, S_OutOfRange) THEN NotFound(index, total)
    ELSE IF is_upstream_error(e) THEN UpstreamError(e)
    ELSE InternalError(e)

\* e is the anyhow::Error's message, e.to_string()

classify_error(e, index, total) ==
    IF contains(e, S_OutOfRange) THEN NotFound(index, total)
    ELSE InternalError(e)

\* faulty variant: the upstream signals tested before the out-of-range one
classify_balance_error_UpstreamFirst(e, index, total) ==
    IF is_upstream_error(e) THEN UpstreamError(e)
    ELSE IF contains(e, S_OutOfRange) THEN NotFound(index, total)
    ELSE InternalError(e)

classify_balance_error(e, index, total) ==
    IF contains(e, S_OutOfRange) THEN NotFound(index, total)
    ELSE IF is_upstream_error(e) THEN UpstreamError(e)
    ELSE InternalError(e)

\* Messages: the signals, a local-validation phrase, and fragments that
\* make up a signal only when they meet ("connect"+"ion", "time"+"out").
P_Credential ==
    <<"u51ED", "u636E">>
P_MissingToken ==
    <<"u7F3A", "u5C11", " ", "r", "e", "f", "r", "e", "s", "h", "T", "o", "k", "e", "n">>
MsgPieces ==
    { S_OutOfRange, S_Expired, S_Forbidden, S_RateLimited, S_ServerError,
      S_RefreshFailed, S_Unavailable, S_TryingToConnect, S_Connection,
      S_Timeout, S_TimedOut, P_Credential, P_MissingToken,
      <<"c", "o", "n", "n", "e", "c", "t">>, <<"i", "o", "n">>,
      <<"t", "i", "m", "e">>, <<"o", "u", "t">> }

Msgs == Concats(MsgPieces, MaxPhrases)

NoInput == [fn |-> "none", msg |-> <<>>, index |-> 0, total |-> 0]

ClassifyError ==
    /\ cl_in = NoInput
    /\ \E msg \in Msgs, index \in 0..1, total \in 0..1 :
        /\ cl_in' = [fn |-> "classify_error", msg |-> msg, index |-> index, total |-> total]
        /\ cl_out' = classify_error(msg, index, total)
    /\ UNCHANGED <<asset_vars, svc_vars>>

ClassifyBalanceError ==
    /\ cl_in = NoInput
    /\ \E msg \in Msgs, index \in 0..1, total \in 0..1 :
        /\ cl_in' = [fn |-> "classify_balance_error", msg |-> msg, index |-> index,
                     total |-> total]
        /\ cl_out' = classify_balance_error(msg, index, total)
    /\ UNCHANGED <<asset_vars, svc_vars>>

(***************************************************************************)
(* The token manager (crate::kiro::token_manager::MultiTokenManager), the  *)
(* collaborator AdminService calls.  Each call is atomic: the manager      *)
(* synchronises internally.  A call yields the set of its possible         *)
(* outcomes [ok, err, pool, val].                                          *)
(***************************************************************************)
Procs == {"r1", "r2"}

Entry(i, dis) ==
    [index |-> i, priority |-> 0, disabled |-> dis, failure_count |-> 0,
     expires_at |-> None, auth_method |-> "social", has_profile_arn |-> FALSE]

RECURSIVE SortedSeq(_)
SortedSeq(S) ==
    IF S = {} THEN <<>>
    ELSE LET m == CHOOSE x \in S : \A y \in S : x <= y
         IN <<m>> \o SortedSeq(S \ {m})

\* the indexes requests and current_index range over
Indexes == 0..(MaxEntries - 1)

\* pools: entries with distinct indexes (gaps allowed, none at all allowed),
\* all enabled, current_index naming an entry or stale
InitPools ==
    UNION { { [entries |-> [k \in 1..Cardinality(I) |-> Entry(SortedSeq(I)[k], FALSE)],
               current_index |-> c] : c \in Indexes }
            : I \in SUBSET Indexes }

Position(pl, index) ==
    {k \in 1..Len(pl.entries) : pl.entries[k].index = index}

OutOfRangeMsg == P_Credential \o S_OutOfRange

\* failures of a call other than a bad index (persisting, validation, network)
TmFailures == {S_TimedOut}

Usage(c, l) ==
    [current_usage |-> c, usage_limit |-> l, subscription_title |-> None,
     next_date_reset |-> None]

NoUsage == Usage(0, 0)

Outcome(ok, err, pl, val) == [ok |-> ok, err |-> err, pool |-> pl, val |-> val]

Failures(pl) == {Outcome(FALSE, m, pl, NoUsage) : m \in TmFailures}

tm_snapshot(pl) ==
    [entries |-> pl.entries,
     current_index |-> pl.current_index,
     total |-> Len(pl.entries),
     available |-> Cardinality({k \in 1..Len(pl.entries) : ~pl.entries[k].disabled})]

\* the pool with its entries replaced
WithEntries(pl, entries) == [pl EXCEPT !.entries = entries]

tm_set_disabled(pl, index, disabled) ==
    IF Position(pl, index) = {} THEN {Outcome(FALSE, OutOfRangeMsg, pl, NoUsage)}
    ELSE {Outcome(TRUE, <<>>,
                  WithEntries(pl, [k \in 1..Len(pl.entries) |->
                      IF pl.entries[k].index = index
                      THEN [pl.entries[k] EXCEPT !.disabled = disabled]
                      ELSE pl.entries[k]]),
                  NoUsage)} \cup Failures(pl)

tm_set_priority(pl, index, priority) ==
    IF Position(pl, index) = {} THEN {Outcome(FALSE, OutOfRangeMsg, pl, NoUsage)}
    ELSE {Outcome(TRUE, <<>>,
                  WithEntries(pl, [k \in 1..Len(pl.entries) |->
                      IF pl.entries[k].index = index
                      THEN [pl.entries[k] EXCEPT !.priority = priority]
                      ELSE pl.entries[k]]),
                  NoUsage)} \cup Failures(pl)

tm_reset_and_enable(pl, index) ==
    IF Position(pl, index) = {} THEN {Outcome(FALSE, OutOfRangeMsg, pl, NoUsage)}
    ELSE {Outcome(TRUE, <<>>,
                  WithEntries(pl, [k \in 1..Len(pl.entries) |->
                      IF pl.entries[k].index = index
                      THEN [pl.entries[k] EXCEPT !.failure_count = 0, !.disabled = FALSE]
                      ELSE pl.entries[k]]),
                  NoUsage)} \cup Failures(pl)

\* failover: another enabled credential becomes current; fails when none is
tm_switch_to_next(pl) ==
    LET next == {k \in 1..Len(pl.entries) :
                    /\ ~pl.entries[k].disabled
                    /\ pl.entries[k].index # pl.current_index}
    IN IF next = {} THEN {Outcome(FALSE, <<>>, pl, NoUsage)}
       ELSE {Outcome(TRUE, <<>>, [pl EXCEPT !.current_index = pl.entries[k].index],
                     NoUsage)
                : k \in next}

tm_get_usage_limits_for(pl, index, usages) ==
    IF Position(pl, index) = {} THEN {Outcome(FALSE, OutOfRangeMsg, pl, NoUsage)}
    ELSE {Outcome(TRUE, <<>>, pl, u) : u \in usages} \cup Failures(pl)

(***************************************************************************)
(* admin/service.rs: AdminService                                          *)
(***************************************************************************)
Ok(v)  == [tag |-> "Ok", val |-> v]
Err(e) == [tag |-> "Err", err |-> e]
NoRes  == [tag |-> "none"]
Unit   == <<>>

Call(fn, ok) == [fn |-> fn, ok |-> ok]

NoReq == [op |-> "none", index |-> 0, disabled |-> FALSE, priority |-> 0]
Req(op, index, disabled, priority) ==
    [op |-> op, index |-> index, disabled |-> disabled, priority |-> priority]

\* faulty variant: is_current by position in the list
StatusItem_ByPosition(entry, k, snapshot) ==
    [index |-> entry.index, priority |-> entry.priority, disabled |-> entry.disabled,
     failure_count |-> entry.failure_count,
     is_current |-> (k - 1 = snapshot.current_index),
     expires_at |-> entry.expires_at, auth_method |-> entry.auth_method,
     has_profile_arn |-> entry.has_profile_arn]

\* the closure of get_all_credentials' map, applied to the k-th entry
StatusItem(entry, k, snapshot) ==
    [index |-> entry.index, priority |-> entry.priority, disabled |-> entry.disabled,
     failure_count |-> entry.failure_count,
     is_current |-> (entry.index = snapshot.current_index),
     expires_at |-> entry.expires_at, auth_method |-> entry.auth_method,
     has_profile_arn |-> entry.has_profile_arn]

get_all_credentials(snapshot) ==
    [total |-> snapshot.total,
     available |-> snapshot.available,
     current_index |-> snapshot.current_index,
     credentials |-> [k \in 1..Len(snapshot.entries) |->
                         StatusItem(snapshot.entries[k], k, snapshot)]]

(***************************************************************************)
(* f64.  The usages and limits tried are integers, which an f64 holds      *)
(* exactly, and stay integers under the subtraction.  A quotient or        *)
(* product is a binary64 value [neg, exp, mant]: mant its 53 significant    *)
(* bits written as five digits in base 2^13, most significant first (the   *)
(* first digit is the leading bit, 1), exp the exponent of the leading     *)
(* bit; zero has mant = <<>>.  Every operation rounds to nearest, ties to  *)
(* even.                                                                   *)
(***************************************************************************)
Base == 8192

Abs(n) == IF n < 0 THEN -n ELSE n

Zeros(n) == [i \in 1..n |-> 0]

RECURSIVE BitLength(_)
BitLength(n) == IF n = 0 THEN 0 ELSE 1 + BitLength(n \div 2)

LexLeq(x, y) ==
    x = y \/ \E i \in 1..Len(x) : x[i] < y[i] /\ \A j \in 1..(i - 1) : x[j] = y[j]

F64(neg, exp, mant) == [neg |-> neg, exp |-> exp, mant |-> mant]

F64Zero == F64(FALSE, 0, <<>>)

\* the binary64 nearest to the number whose first 53 bits are m, followed
\* by the bit `guard` and, when `sticky`, by further nonzero bits
RoundNearestEven(neg, exp, m, guard, sticky) ==
    LET up == guard /\ (sticky \/ m[5] % 2 = 1)
        open == {i \in 2..5 : m[i] # Base - 1}
    IN IF ~up THEN F64(neg, exp, m)
       ELSE IF open = {} THEN F64(neg, exp + 1, <<1, 0, 0, 0, 0>>)
       ELSE LET k == CHOOSE i \in open : \A j \in open : j <= i
            IN F64(neg, exp, SubSeq(m, 1, k - 1) \o <<m[k] + 1>> \o Zeros(5 - k))

\* a and b scaled by powers of two until 1 <= a / b < 2
RECURSIVE Normalise(_, _, _)
Normalise(a, b, e) ==
    IF a >= 2 * b THEN Normalise(a, 2 * b, e + 1)
    ELSE IF a < b THEN Normalise(2 * a, b, e - 1)
    ELSE [a |-> a, b |-> b, e |-> e]

\* a / b on integer-valued f64s, b > 0: long division, a digit at a time
f64_div(a, b) ==
    IF a = 0 THEN F64Zero
    ELSE LET n == Normalise(Abs(a), b, 0)
             r0 == n.a - n.b
             r1 == (r0 * Base) % n.b
             r2 == (r1 * Base) % n.b
             r3 == (r2 * Base) % n.b
             r4 == (r3 * Base) % n.b
             m == <<1, (r0 * Base) \div n.b, (r1 * Base) \div n.b,
                       (r2 * Base) \div n.b, (r3 * Base) \div n.b>>
         IN RoundNearestEven(a < 0, n.e, m, 2 * r4 >= n.b, r4 # 0 /\ 2 * r4 # n.b)

\* what the digits of m from the i-th on carry into digit i - 1 of m * c
RECURSIVE MulCarry(_, _, _)
MulCarry(m, c, i) ==
    IF i > Len(m) THEN 0 ELSE (m[i] * c + MulCarry(m, c, i + 1)) \div Base

\* m * c for a small positive integer c: its digits, the first one holding
\* all of the product's leading part
Product(m, c) ==
    <<m[1] * c + MulCarry(m, c, 2)>>
        \o [i \in 1..(Len(m) - 1) |-> (m[i + 1] * c + MulCarry(m, c, i + 2)) % Base]

\* x * c, c a positive integer-valued f64 below Base
f64_mul(x, c) ==
    IF x.mant = <<>> THEN F64Zero
    ELSE LET p == Product(x.mant, c)
             s == BitLength(p[1]) - 1
             m == [i \in 1..5 |->
                      IF i = 1 THEN p[1] \div 2^s
                      ELSE (p[i - 1] % 2^s) * (Base \div 2^s) + p[i] \div 2^s]
         IN RoundNearestEven(x.neg, x.exp + s, <<m[1], m[2], m[3], m[4], m[5]>>,
                             s > 0 /\ (p[5] \div 2^(s - 1)) % 2 = 1,
                             s > 1 /\ p[5] % 2^(s - 1) # 0)

\* the f64 of an integer
f64_from(n) == f64_div(n, 1)

MagLeq(x, y) ==
    IF x.mant = <<>> THEN TRUE
    ELSE IF y.mant = <<>> THEN FALSE
    ELSE x.exp < y.exp \/ (x.exp = y.exp /\ LexLeq(x.mant, y.mant))

f64_leq(x, y) ==
    IF x.neg /\ ~y.neg THEN TRUE
    ELSE IF ~x.neg /\ y.neg THEN FALSE
    ELSE IF x.neg THEN MagLeq(y, x)
    ELSE MagLeq(x, y)

f64_min(x, y) == IF f64_leq(x, y) THEN x ELSE y

MaxInt(a, b) == IF a >= b THEN a ELSE b

\* faulty variant: no .min(100.0)
usage_percentage_NoMin(current_usage, usage_limit) ==
    IF usage_limit > 0 THEN f64_mul(f64_div(current_usage, usage_limit), 100)
    ELSE F64Zero

usage_percentage(current_usage, usage_limit) ==
    IF usage_limit > 0
    THEN f64_min(f64_mul(f64_div(current_usage, usage_limit), 100), f64_from(100))
    ELSE F64Zero

BalanceResponse(index, usage) ==
    [index |-> index,
     subscription_title |-> usage.subscription_title,
     current_usage |-> usage.current_usage,
     usage_limit |-> usage.usage_limit,
     remaining |-> MaxInt(usage.usage_limit - usage.current_usage, 0),
     usage_percentage |-> usage_percentage(usage.current_usage, usage.usage_limit),
     next_reset_at |-> usage.next_date_reset]

UsageValues == (-1..MaxUsage) \cup {7, 29, 75, 100}
Usages    == {Usage(c, l) : c \in UsageValues, l \in UsageValues}
SvcUsages == {Usage(75, 100)}
Priorities == {0, 1}

\* a request task is free to take the next request; the tasks are
\* interchangeable, so r2 takes its first request after r1 took one
CanStart(p) ==
    /\ pc[p] \in {"idle", "done"}
    /\ budget > 0
    /\ p = "r2" => pc["r1"] # "idle"

\* what set_disabled, set_priority, reset_and_enable and get_balance keep
\* of their snapshot: current_index (set_disabled only) and total
Kept(snapshot, op) ==
    [entries |-> <<>>,
     current_index |-> IF op = "set_disabled" THEN snapshot.current_index ELSE 0,
     total |-> snapshot.total,
     available |-> 0]

Begin(p, r, next) ==
    /\ CanStart(p)
    /\ budget' = budget - 1
    /\ req' = [req EXCEPT ![p] = r]
    /\ cap' = [cap EXCEPT ![p] =
                 IF r.op = "get_all_credentials" THEN tm_snapshot(pool)
                 ELSE Kept(tm_snapshot(pool), r.op)]
    /\ calls' = [calls EXCEPT ![p] = <<Call("snapshot", TRUE)>>]
    /\ at_mut' = [at_mut EXCEPT ![p] = -1]
    /\ pc' = [pc EXCEPT ![p] = next]

\* get_all_credentials: one snapshot, mapped
GetAllCredentials(p) ==
    /\ Begin(p, Req("get_all_credentials", 0, FALSE, 0), "done")
    /\ res' = [res EXCEPT ![p] = Ok(get_all_credentials(tm_snapshot(pool)))]
    /\ UNCHANGED <<pool, asset_vars, cl_vars>>

\* set_disabled, lines 52-54: the snapshot read
SetDisabledSnapshot(p) ==
    /\ \E index \in Indexes, disabled \in BOOLEAN :
          Begin(p, Req("set_disabled", index, disabled, 0), "sd_mutate")
    /\ res' = [res EXCEPT ![p] = NoRes]
    /\ UNCHANGED <<pool, asset_vars, cl_vars>>

\* faulty variant: the failover test without `disabled &&`
SetDisabledMutate_AnyFlag(p) ==
    /\ pc[p] = "sd_mutate"
    /\ \E o \in tm_set_disabled(pool, req[p].index, req[p].disabled) :
        /\ pool' = o.pool
        /\ calls' = [calls EXCEPT ![p] = Append(@, Call("set_disabled", o.ok))]
        /\ at_mut' = [at_mut EXCEPT ![p] = pool.current_index]
        /\ IF ~o.ok
           THEN /\ res' = [res EXCEPT ![p] =
                             Err(classify_error(o.err, req[p].index, cap[p].total))]
                /\ pc' = [pc EXCEPT ![p] = "done"]
           ELSE IF req[p].index = cap[p].current_index
           THEN /\ res' = res
                /\ pc' = [pc EXCEPT ![p] = "sd_switch"]
           ELSE /\ res' = [res EXCEPT ![p] = Ok(Unit)]
                /\ pc' = [pc EXCEPT ![p] = "done"]
    /\ UNCHANGED <<req, cap, budget, asset_vars, cl_vars>>

\* set_disabled, lines 56-61 (and 64 when no switch is due)
SetDisabledMutate(p) ==
    /\ pc[p] = "sd_mutate"
    /\ \E o \in tm_set_disabled(pool, req[p].index, req[p].disabled) :
        /\ pool' = o.pool
        /\ calls' = [calls EXCEPT ![p] = Append(@, Call("set_disabled", o.ok))]
        /\ at_mut' = [at_mut EXCEPT ![p] = pool.current_index]
        /\ IF ~o.ok
           THEN /\ res' = [res EXCEPT ![p] =
                             Err(classify_error(o.err, req[p].index, cap[p].total))]
                /\ pc' = [pc EXCEPT ![p] = "done"]
           ELSE IF req[p].disabled /\ req[p].index = cap[p].current_index
           THEN /\ res' = res
                /\ pc' = [pc EXCEPT ![p] = "sd_switch"]
           ELSE /\ res' = [res EXCEPT ![p] = Ok(Unit)]
                /\ pc' = [pc EXCEPT ![p] = "done"]
    /\ UNCHANGED <<req, cap, budget, asset_vars, cl_vars>>

\* faulty variant: switch_to_next's failure returned to the caller
SetDisabledSwitch_Propagate(p) ==
    /\ pc[p] = "sd_switch"
    /\ \E o \in tm_switch_to_next(pool) :
        /\ pool' = o.pool
        /\ calls' = [calls EXCEPT ![p] = Append(@, Call("switch_to_next", o.ok))]
        /\ res' = [res EXCEPT ![p] =
                     IF o.ok THEN Ok(Unit) ELSE Err(InternalError(o.err))]
    /\ pc' = [pc EXCEPT ![p] = "done"]
    /\ UNCHANGED <<req, cap, budget, at_mut, asset_vars, cl_vars>>

\* set_disabled, lines 62-64: the switch, its result dropped
SetDisabledSwitch(p) ==
    /\ pc[p] = "sd_switch"
    /\ \E o \in tm_switch_to_next(pool) :
        /\ pool' = o.pool
        /\ calls' = [calls EXCEPT ![p] = Append(@, Call("switch_to_next", o.ok))]
    /\ res' = [res EXCEPT ![p] = Ok(Unit)]
    /\ pc' = [pc EXCEPT ![p] = "done"]
    /\ UNCHANGED <<req, cap, budget, at_mut, asset_vars, cl_vars>>

\* the tail shared by set_priority and reset_and_enable:
\* .map_err(|e| self.classify_error(e, index, total))
Finish(p, fn, o) ==
    /\ pool' = o.pool
    /\ calls' = [calls EXCEPT ![p] = Append(@, Call(fn, o.ok))]
    /\ at_mut' = [at_mut EXCEPT ![p] = pool.current_index]
    /\ res' = [res EXCEPT ![p] =
                 IF o.ok THEN Ok(Unit)
                 ELSE Err(classify_error(o.err, req[p].index, cap[p].total))]
    /\ pc' = [pc EXCEPT ![p] = "done"]
    /\ UNCHANGED <<req, cap, budget, asset_vars, cl_vars>>

SetPrioritySnapshot(p) ==
    /\ \E index \in Indexes, priority \in Priorities :
          Begin(p, Req("set_priority", index, FALSE, priority), "sp_mutate")
    /\ res' = [res EXCEPT ![p] = NoRes]
    /\ UNCHANGED <<pool, asset_vars, cl_vars>>

SetPriorityMutate(p) ==
    /\ pc[p] = "sp_mutate"
    /\ \E o \in tm_set_priority(pool, req[p].index, req[p].priority) :
          Finish(p, "set_priority", o)

ResetAndEnableSnapshot(p) ==
    /\ \E index \in Indexes :
          Begin(p, Req("reset_and_enable", index, FALSE, 0), "re_mutate")
    /\ res' = [res EXCEPT ![p] = NoRes]
    /\ UNCHANGED <<pool, asset_vars, cl_vars>>

ResetAndEnableMutate(p) ==
    /\ pc[p] = "re_mutate"
    /\ \E o \in tm_reset_and_enable(pool, req[p].index) :
          Finish(p, "reset_and_enable", o)

GetBalanceSnapshot(p) ==
    /\ \E index \in Indexes :
          Begin(p, Req("get_balance", index, FALSE, 0), "gb_fetch")
    /\ res' = [res EXCEPT ![p] = NoRes]
    /\ UNCHANGED <<pool, asset_vars, cl_vars>>

\* get_balance, lines 86-109: the awaited fetch returns, the response is built
GetBalanceFetch(p, usages) ==
    /\ pc[p] = "gb_fetch"
    /\ \E o \in tm_get_usage_limits_for(pool, req[p].index, usages) :
        /\ pool' = o.pool
        /\ calls' = [calls EXCEPT ![p] = Append(@, Call("get_usage_limits_for", o.ok))]
        /\ res' = [res EXCEPT ![p] =
                     IF o.ok THEN Ok(BalanceResponse(req[p].index, o.val))
                     ELSE Err(classify_balance_error(o.err, req[p].index, cap[p].total))]
    /\ pc' = [pc EXCEPT ![p] = "done"]
    /\ UNCHANGED <<req, cap, budget, at_mut, asset_vars, cl_vars>>

(***************************************************************************)
(* Specifications                                                          *)
(***************************************************************************)
InitAssetIdle ==
    /\ assets = WithIndex(DocOne)
    /\ base_path = "/admin"
    /\ route = "none"
    /\ uri = <<>>
    /\ resp = NoResp
    /\ lookups = <<>>

InitClIdle ==
    /\ cl_in = NoInput
    /\ cl_out = InternalError(<<>>)

InitSvc(pools, n) ==
    /\ pool \in pools
    /\ pc = [p \in Procs |-> "idle"]
    /\ req = [p \in Procs |-> NoReq]
    /\ cap = [p \in Procs |-> tm_snapshot([entries |-> <<>>, current_index |-> 0])]
    /\ res = [p \in Procs |-> NoRes]
    /\ calls = [p \in Procs |-> <<>>]
    /\ budget = n
    /\ at_mut = [p \in Procs |-> -1]

\* the admin service: concurrent requests against one token manager
Init == InitSvc(InitPools, MaxOps) /\ InitAssetIdle /\ InitClIdle

Next ==
    \E p \in Procs :
        \/ GetAllCredentials(p)
        \/ SetDisabledSnapshot(p)
        \/ SetDisabledMutate(p)
        \/ SetDisabledSwitch(p)
        \/ SetPrioritySnapshot(p)
        \/ SetPriorityMutate(p)
        \/ ResetAndEnableSnapshot(p)
        \/ ResetAndEnableMutate(p)
        \/ GetBalanceSnapshot(p)
        \/ GetBalanceFetch(p, SvcUsages)

Spec == Init /\ [][Next]_vars

\* concurrent set_disabled requests alone
NextDisable ==
    \E p \in Procs :
        \/ SetDisabledSnapshot(p)
        \/ SetDisabledMutate(p)
        \/ SetDisabledSwitch(p)

InitDisable == InitSvc(InitPools, MaxReqs) /\ InitAssetIdle /\ InitClIdle

SpecDisable == InitDisable /\ [][NextDisable]_vars

\* get_balance alone, over the usage values
FullPool ==
    [entries |-> [k \in 1..MaxEntries |-> Entry(k - 1, FALSE)], current_index |-> 0]

InitBalance == InitSvc({FullPool}, MaxOps) /\ InitAssetIdle /\ InitClIdle

NextBalance ==
    \/ GetBalanceSnapshot("r1")
    \/ GetBalanceFetch("r1", Usages)

SpecBalance == InitBalance /\ [][NextBalance]_vars

\* the classifiers as functions of the message
InitClassify ==
    InitSvc({FullPool}, 0) /\ InitAssetIdle /\ InitClIdle

NextClassify == ClassifyError \/ ClassifyBalanceError

SpecClassify == InitClassify /\ [][NextClassify]_vars

\* the asset server over the builds of admin-ui/dist
InitAsset ==
    /\ assets \in AssetTables
    /\ base_path \in BasePaths
    /\ route = "none"
    /\ uri = <<>>
    /\ resp = NoResp
    /\ lookups = <<>>
    /\ InitSvc({FullPool}, 0)
    /\ InitClIdle

NextAsset == StaticHandler \/ IndexHandler

SpecAsset == InitAsset /\ [][NextAsset]_vars

(***************************************************************************)
(* Properties                                                              *)
(***************************************************************************)
Finished(p, op) == pc[p] = "done" /\ req[p].op = op

\* the request's mutation call was made and returned Ok
MutationOk(p) == Len(calls[p]) >= 2 /\ calls[p][2].ok

Switched(p) == \E i \in 1..Len(calls[p]) : calls[p][i].fn = "switch_to_next"

\* the captured condition of set_disabled's failover
SwitchDue(p) ==
    MutationOk(p) /\ req[p].disabled /\ req[p].index = cap[p].current_index

\* C1: set_disabled(index, true) on the credential that is current in its
\* snapshot returns Ok(()) whenever the manager's set_disabled returned Ok,
\* whatever switch_to_next returned.
C1_DisableCurrentSucceeds ==
    \A p \in Procs :
        (Finished(p, "set_disabled") /\ SwitchDue(p)) => res[p] = Ok(Unit)

\* a finished set_disabled of the current credential whose switch_to_next
\* failed for want of another enabled credential, reported as success
C1_Witness ==
    \E p \in Procs :
        /\ Finished(p, "set_disabled")
        /\ SwitchDue(p)
        /\ Len(calls[p]) = 3
        /\ calls[p][3] = Call("switch_to_next", FALSE)
        /\ \A k \in 1..Len(pool.entries) :
              pool.entries[k].disabled \/ pool.entries[k].index = pool.current_index
        /\ res[p] = Ok(Unit)

CurrentItems(r) == {k \in 1..Len(r.credentials) : r.credentials[k].is_current}

\* C2: in a get_all_credentials response at most one item is current;
\* exactly one is iff an entry of the snapshot carries the snapshot's
\* current_index; none is only when the pool is empty or current_index names
\* no entry; total, available, current_index and the items' order are the
\* snapshot's.
C2_IsCurrentMatchesSnapshot ==
    \A p \in Procs :
        Finished(p, "get_all_credentials") =>
            LET r == res[p].val
                snap == cap[p]
                named == {k \in 1..Len(snap.entries) :
                             snap.entries[k].index = snap.current_index}
            IN /\ res[p].tag = "Ok"
               /\ Cardinality(CurrentItems(r)) <= 1
               /\ Cardinality(CurrentItems(r)) = 1 <=> named # {}
               /\ CurrentItems(r) = {} => (snap.entries = <<>> \/ named = {})
               /\ r.total = snap.total
               /\ r.available = snap.available
               /\ r.current_index = snap.current_index
               /\ Len(r.credentials) = Len(snap.entries)
               /\ \A k \in 1..Len(snap.entries) :
                     /\ r.credentials[k].index = snap.entries[k].index
                     /\ r.credentials[k].disabled = snap.entries[k].disabled
                     /\ r.credentials[k].priority = snap.entries[k].priority

\* three credentials, current_index = 1: total 3, the item with index 1 and
\* no other is current
C2_Witness ==
    \E p \in Procs :
        /\ Finished(p, "get_all_credentials")
        /\ res[p].val.total = 3
        /\ res[p].val.current_index = 1
        /\ \E k \in CurrentItems(res[p].val) :
              /\ res[p].val.credentials[k].index = 1
              /\ CurrentItems(res[p].val) = {k}

Kinds == {"NotFound", "UpstreamError", "InternalError"}

\* C3: each classifier maps every message to one of the three kinds, and a
\* message containing the out-of-range signal to NotFound{index,total},
\* whatever else it contains.
C3_ClassificationTotal ==
    cl_in.fn # "none" =>
        /\ cl_out.kind \in Kinds
        /\ contains(cl_in.msg, S_OutOfRange) => cl_out = NotFound(cl_in.index, cl_in.total)
        /\ cl_out.kind = "NotFound" => contains(cl_in.msg, S_OutOfRange)

\* the balance classifier on a message with the out-of-range signal and
\* "timeout"
C3_Witness ==
    /\ cl_in.fn = "classify_balance_error"
    /\ contains(cl_in.msg, S_OutOfRange)
    /\ contains(cl_in.msg, S_Timeout)
    /\ cl_out = NotFound(cl_in.index, cl_in.total)

\* C4: static_handler answers a path containing ".." with 400 and makes no
\* Asset::get call for it, also when the path names an embedded file.
C4_DotDotRejected ==
    (route = "static" /\ contains(request_path(uri), S_DotDot)) =>
        /\ resp.status = 400
        /\ lookups = <<>>

\* the embedded file index..html requested
C4_Witness ==
    /\ route = "static"
    /\ request_path(uri) = A_DotDotHtml
    /\ A_DotDotHtml \in DOMAIN assets
    /\ resp.status = 400

\* the request matched an embedded file directly
DirectMatch ==
    /\ route = "static"
    /\ ~contains(request_path(uri), S_DotDot)
    /\ request_path(uri) \in DOMAIN assets

\* C5: a directly matched file gets no-cache when its path ends in ".html"
\* (also under assets/), else the one-year immutable directive when the path
\* starts with "assets/", else the one-hour directive.
C5_CachePolicy ==
    DirectMatch =>
        LET path == request_path(uri)
        IN /\ resp.status = 200
           /\ ends_with(path, S_DotHtml) => resp.cache_control = NoCache
           /\ (~ends_with(path, S_DotHtml) /\ starts_with(path, S_AssetsSlash))
                 => resp.cache_control = OneYear
           /\ (~ends_with(path, S_DotHtml) /\ ~starts_with(path, S_AssetsSlash))
                 => resp.cache_control = OneHour
           /\ path = S_IndexHtml => resp.cache_control = NoCache
           /\ path = A_AppJs => resp.cache_control = OneYear
           /\ path = A_Favicon => resp.cache_control = OneHour

\* assets/index.html matched: no-cache although under assets/
C5_Witness ==
    /\ DirectMatch
    /\ request_path(uri) = A_AssetsHtml
    /\ resp.cache_control = NoCache

\* the last segment of the path, and whether it holds a '.'
LastSegmentHasDot ==
    LET path == request_path(uri)
        slashes == {i \in 1..Len(path) : path[i] = "/"}
    IN \E i \in 1..Len(path) :
          path[i] = "." /\ \A j \in slashes : j < i

NoMatch ==
    /\ route = "static"
    /\ ~contains(request_path(uri), S_DotDot)
    /\ request_path(uri) \notin DOMAIN assets

IsConfigPiece(c) ==
    \E i \in 1..Len(config_script(base_path)) : config_script(base_path)[i] = c

\* DocBad as a String: FF, F0 90 80, the lone E9, E2 82 and each of E0 and
\* 80 are one U+FFFD, E2 82 AC is U+20AC
DocBadText ==
    <<"<html><head>", "uFFFD", "uFFFD", HeadClose,
      "<body>caf", "uFFFD", " ", "u20AC", " ", "uFFFD", " ",
      "uFFFD", "uFFFD", "</body></html>">>

\* the document as the String that from_utf8_lossy makes of it
Decoded(doc) == IF doc = DocBad THEN DocBadText ELSE doc

\* body is the decoded doc with the config script put right before every
\* "</head>"
Injected(doc, body) ==
    /\ SelectSeq(body, LAMBDA c : ~IsConfigPiece(c)) = Decoded(doc)
    /\ \A i \in 1..Len(body) :
          body[i] = HeadClose =>
              /\ i > Len(config_script(base_path))
              /\ SubSeq(body, i - Len(config_script(base_path)), i - 1)
                    = config_script(base_path)
    /\ Len(body) = Len(Decoded(doc)) + Len(config_script(base_path))
                       * Cardinality({i \in 1..Len(doc) : doc[i] = HeadClose})

NotBuilt == <<"Admin UI not built. Run 'pnpm build' in admin-ui directory.">>

\* C6 as stated: an unmatched path without ".." whose last segment has no
\* extension gets the entry document, status 200, config injected; an
\* unmatched path whose last segment looks like a file gets 404.
C6_Original ==
    /\ (NoMatch /\ ~LastSegmentHasDot) =>
          /\ resp.status = 200
          /\ S_IndexHtml \in DOMAIN assets
          /\ Injected(assets[S_IndexHtml], resp.body)
    /\ (NoMatch /\ LastSegmentHasDot) => resp.status = 404

\* C6 amended: an unmatched path without ".." whose last segment has no
\* extension gets what serve_index gives: when index.html is embedded, status
\* 200 and the entry document, decoded as from_utf8_lossy decodes it, with the
\* config injected; when it is not embedded, 404 with the not-built message.
\* An unmatched path without ".." whose last segment looks like a file gets
\* 404.
C6_SpaFallback ==
    /\ (NoMatch /\ ~LastSegmentHasDot) =>
          IF S_IndexHtml \in DOMAIN assets
          THEN /\ resp.status = 200
               /\ Injected(assets[S_IndexHtml], resp.body)
          ELSE /\ resp.status = 404
               /\ resp.body = NotBuilt
    /\ (NoMatch /\ LastSegmentHasDot) => resp.status = 404

\* /dashboard/settings on a build with index.html: 200 and the config
C6_Witness ==
    /\ NoMatch
    /\ request_path(uri) = A_Dashboard \o <<"/">> \o <<"s", "e", "t", "t", "i", "n", "g", "s">>
    /\ resp.status = 200
    /\ \E i \in 1..Len(resp.body) : resp.body[i] = "<script>window.__KIRO_CONFIG__={basePath:\""

\* the digits of n in base Base
RECURSIVE DigitsOf(_)
DigitsOf(n) == IF n = 0 THEN <<>> ELSE DigitsOf(n \div Base) \o <<n % Base>>

Far == 8 * Base

Clamp(n) == IF n > Far THEN Far ELSE IF n < -Far THEN -Far ELSE n

\* x - y for digit sequences of one length, as an integer while it is within
\* Far of zero and as Far or -Far beyond
RECURSIVE Difference(_, _, _)
Difference(x, y, i) ==
    IF i = 0 THEN 0 ELSE Clamp(Difference(x, y, i - 1) * Base + x[i] - y[i])

\* the positive f64 pct is 100 * cu / ul up to the two roundings of the
\* expression, |pct - 100 cu / ul| <= 2^-51 * 100 cu / ul: both sides are
\* multiplied by ul * 2^(52 - pct.exp), which makes pct its mantissa
WithinTwoRoundings(pct, cu, ul) ==
    /\ pct.mant # <<>>
    /\ ~pct.neg
    /\ pct.exp \in 0..52
    /\ LET p == Product(pct.mant, ul)
           scaled == DigitsOf(p[1]) \o SubSeq(p, 2, 5)
           k == 52 - pct.exp
           exact == DigitsOf(100 * cu * 2^(k % 13)) \o Zeros(k \div 13)
           n == IF Len(scaled) >= Len(exact) THEN Len(scaled) ELSE Len(exact)
           d == Difference(Zeros(n - Len(scaled)) \o scaled,
                           Zeros(n - Len(exact)) \o exact, n)
       IN Abs(d) <= IF pct.exp <= 1 THEN 100 * cu * 2^(1 - pct.exp)
                    ELSE (100 * cu) \div 2^(pct.exp - 1)

\* C7: a get_balance response for current_usage >= 0 has
\* remaining = max(usage_limit - current_usage, 0); for usage_limit > 0 its
\* usage_percentage is the f64 min(current_usage / usage_limit * 100, 100):
\* within 0..100, exactly 100 from current_usage >= usage_limit on, 0 for no
\* usage, and below the limit the quotient times 100 up to the roundings of
\* the two operations; for usage_limit <= 0 it is 0.
C7_BalanceArithmetic ==
    \A p \in Procs :
        (Finished(p, "get_balance") /\ res[p].tag = "Ok"
            /\ res[p].val.current_usage >= 0) =>
            LET b == res[p].val
                cu == b.current_usage
                ul == b.usage_limit
                pct == b.usage_percentage
            IN /\ b.index = req[p].index
               /\ b.remaining = IF ul - cu > 0 THEN ul - cu ELSE 0
               /\ ul > 0 =>
                     /\ f64_leq(F64Zero, pct)
                     /\ f64_leq(pct, f64_from(100))
                     /\ cu >= ul => pct = f64_from(100)
                     /\ cu = 0 => pct = F64Zero
                     /\ (0 < cu /\ cu < ul) => WithinTwoRoundings(pct, cu, ul)
               /\ ul <= 0 => pct = F64Zero

\* current_usage 75 of usage_limit 100: remaining 25, 75 percent
C7_Witness ==
    \E p \in Procs :
        /\ Finished(p, "get_balance")
        /\ res[p].tag = "Ok"
        /\ res[p].val.current_usage = 75
        /\ res[p].val.usage_limit = 100
        /\ res[p].val.remaining = 25
        /\ res[p].val.usage_percentage = f64_from(75)

SimpleOps == {"set_disabled", "set_priority", "reset_and_enable"}

\* C8: an error returned by set_disabled, set_priority or reset_and_enable
\* is NotFound{index,total} or InternalError(message), the latter only for
\* a message without the out-of-range signal; UpstreamError is returned by
\* get_balance alone.
C8_SimpleOpsNeverUpstream ==
    \A p \in Procs :
        (pc[p] = "done" /\ res[p].tag = "Err") =>
            /\ res[p].err.kind \in Kinds
            /\ req[p].op \in SimpleOps =>
                  /\ res[p].err.kind # "UpstreamError"
                  /\ res[p].err.kind = "NotFound" =>
                        res[p].err = NotFound(req[p].index, cap[p].total)
                  /\ res[p].err.kind = "InternalError" =>
                        ~contains(res[p].err.msg, S_OutOfRange)
            /\ res[p].err.kind = "UpstreamError" => req[p].op = "get_balance"

\* a simple operation failed with a message carrying a network phrase and
\* returned InternalError, while get_balance returned UpstreamError for it
C8_Witness ==
    \E p, q \in Procs :
        /\ pc[p] = "done" /\ req[p].op \in SimpleOps
        /\ res[p] = Err(InternalError(S_TimedOut))
        /\ is_upstream_error(S_TimedOut)
        /\ pc[q] = "done" /\ req[q].op = "get_balance"
        /\ res[q] = Err(UpstreamError(S_TimedOut))

\* C9: a set_disabled request calls switch_to_next only when its mutation
\* returned Ok, disabled is true and index is the current_index of its
\* snapshot, then once and right after the mutation; a finished request for
\* which that holds has called it; one whose mutation failed returned the
\* error after the snapshot and the mutation call alone.
C9_SwitchIffDue ==
    \A p \in Procs :
        req[p].op = "set_disabled" =>
            /\ Switched(p) =>
                  /\ SwitchDue(p)
                  /\ Len(calls[p]) = 3
                  /\ calls[p][1].fn = "snapshot"
                  /\ calls[p][2].fn = "set_disabled"
                  /\ calls[p][3].fn = "switch_to_next"
            /\ (pc[p] = "done" /\ SwitchDue(p)) => Switched(p)
            /\ (pc[p] = "done" /\ ~MutationOk(p)) =>
                  /\ res[p].tag = "Err"
                  /\ calls[p] = <<Call("snapshot", TRUE), Call("set_disabled", FALSE)>>

\* a finished set_disabled that switched, and one that disabled another
\* credential than the current and did not
C9_Witness ==
    \E p, q \in Procs :
        /\ Finished(p, "set_disabled") /\ Switched(p)
        /\ Finished(q, "set_disabled") /\ req[q].disabled /\ MutationOk(q)
        /\ ~Switched(q)

\* the request switched although its credential was not the current one
\* when its disable was applied
StaleSwitch(p) ==
    /\ Finished(p, "set_disabled")
    /\ req[p].disabled
    /\ Switched(p)
    /\ at_mut[p] # req[p].index

\* the request did not switch although its credential was the current one
\* when its disable was applied
MissedSwitch(p) ==
    /\ Finished(p, "set_disabled")
    /\ req[p].disabled
    /\ MutationOk(p)
    /\ ~Switched(p)
    /\ at_mut[p] = req[p].index

\* C10: both stale outcomes of set_disabled's read-then-mutate happen, and
\* the request returns Ok(()) in both.
C10_StaleOutcomesSucceed ==
    \A p \in Procs : (StaleSwitch(p) \/ MissedSwitch(p)) => res[p] = Ok(Unit)

\* one request switched on a stale condition, the other missed its switch
\* and left a disabled credential current
C10_Witness ==
    \E p, q \in Procs :
        /\ StaleSwitch(p)
        /\ MissedSwitch(q)
        /\ pool.current_index = req[q].index
        /\ \E k \in 1..Len(pool.entries) :
              /\ pool.entries[k].index = pool.current_index
              /\ pool.entries[k].disabled

=============================================================================
